---- MODULE Spec2Model ----
(***************************************************************************)
(* Two-tier request cache of ScreenWriter/hugging_api/cache/request_saver: *)
(* make_cache_key, DiskCache (SQLite), SemanticCache (ChromaDB + embedding *)
(* backend) and the wrapper built by cache_llm_call.  Each call of the     *)
(* wrapper is a process that moves through the numbered stages of the      *)
(* code; every access to a store is one atomic step.                       *)
(***************************************************************************)
EXTENDS Integers, Sequences, FiniteSets, TLC

\* ------------------------------------------------------------------ bounds
NResults == 2      \* distinct responses the backend may produce
MaxMsgs == 2       \* messages in a request whose key is derived directly
MaxTime == 2       \* the latest reading of the clock
MaxCalls == 3      \* calls made in one behaviour: of wrapper, and of DiskCache.set by others

Callers == {"p", "q"}
Results == 1..NResults

\* ------------------------------------------------------- values and texts
None == [kind |-> "none"]                  \* Python None
Err(e) == [kind |-> "error", e |-> e]      \* a raised exception
Dict(r) == [kind |-> "dict", r |-> r]      \* plain JSON value (dict) of response r
Obj(r) == [kind |-> "obj", r |-> r]        \* typed response object (SceneSchema) r
J(r) == [kind |-> "json", r |-> r]         \* text: the JSON document of response r
Garbage == [kind |-> "garbage"]            \* text that is not a JSON document

Num(n) == [kind |-> "num", n |-> n]        \* a number among the extras
PySet == [kind |-> "set"]                  \* a Python set: no JSON form
PyDict(items) == [kind |-> "dict", items |-> items]   \* a dict, its pairs in insertion order

StoredTexts == {J(r) : r \in Results} \cup {Garbage}

IsErr(v) == v.kind = "error"

\* json.loads
JsonLoads(s) == IF s.kind = "json" THEN Dict(s.r) ELSE Err("JSONDecodeError")

\* json.dumps: only plain JSON values are serializable
JsonDumps(v) == IF v.kind = "dict" THEN J(v.r) ELSE Err("TypeError")

\* obj.model_dump_json(): an attribute of the typed object only
ModelDumpJson(v) == IF v.kind = "obj" THEN J(v.r) ELSE Err("AttributeError")

\* SceneSchema.model_validate_json
ModelValidateJson(s) == IF s.kind = "json" THEN Obj(s.r) ELSE Err("ValidationError")

\* ------------------------------------------------------- request material
\* A Python dict is a sequence of <<key, value>> pairs in insertion order.
Msg(role, content) == << <<"role", role>>, <<"content", content>> >>

Texts == {"hello", "hello there", "hey"}

ReqA == [model |-> "m1", messages |-> << Msg("user", "hello") >>, extras |-> None]
ReqB == [model |-> "m1", messages |-> << Msg("user", "hello there") >>, extras |-> None]
ReqC == [model |-> "m1", messages |-> << Msg("user", "hey") >>, extras |-> None]
ReqD == [model |-> "m2", messages |-> << Msg("system", "be brief"), Msg("user", "hello") >>,
         extras |-> PyDict(<< <<"temperature", Num(1)>> >>)]
\* extras that json.dumps cannot serialize
ReqE == [model |-> "m1", messages |-> << Msg("user", "hello") >>,
         extras |-> PyDict(<< <<"stop", PySet>> >>)]

Requests == {ReqA, ReqB, ReqC, ReqD}
SameModel == {ReqA, ReqB, ReqC}
BadRequests == {ReqE}

\* Lexicographic order of the dict keys that occur.
KeyOrder ==
    <<"content", "extras", "max_tokens", "messages", "model", "role", "stop", "temperature">>
Rank(k) == CHOOSE i \in 1..Len(KeyOrder) : KeyOrder[i] = k

RECURSIVE InsertPair(_, _)
InsertPair(p, sorted) ==
    IF sorted = <<>> THEN <<p>>
    ELSE IF Rank(p[1]) <= Rank(Head(sorted)[1]) THEN <<p>> \o sorted
    ELSE <<Head(sorted)>> \o InsertPair(p, Tail(sorted))

\* json.dumps without sort_keys: the pairs in insertion order
InsertionOrder(d) == d

\* json.dumps(..., sort_keys=True) of one dict: its pairs in key order
RECURSIVE SortKeys(_)
SortKeys(d) == IF d = <<>> THEN <<>> ELSE InsertPair(Head(d), SortKeys(Tail(d)))

\* extras or {}
ExtrasOrEmpty(extras) == IF extras = None \/ extras.items = <<>> THEN <<>> ELSE extras.items

\* a payload without the extras
DumpsWithoutExtras(model, messages, extras) ==
    << <<"messages", [i \in 1..Len(messages) |-> SortKeys(messages[i])]>>,
       <<"model", model>> >>

\* _stable_dumps of {"model": .., "messages": .., "extras": ..}
StableDumps(model, messages, extras) ==
    << <<"extras", SortKeys(extras)>>,
       <<"messages", [i \in 1..Len(messages) |-> SortKeys(messages[i])]>>,
       <<"model", model>> >>

\* json.dumps raises TypeError on a value that has no JSON form
JsonSerializable(extras) == \A i \in 1..Len(extras) : extras[i][2].kind # "set"

\* hashlib.sha256(..).hexdigest(): collision-free on the texts that occur
Sha256(text) == [kind |-> "hex", sha256 |-> text]

make_cache_key(model, messages, extras) ==
    IF JsonSerializable(ExtrasOrEmpty(extras))
    THEN Sha256(StableDumps(model, messages, ExtrasOrEmpty(extras)))
    ELSE Err("TypeError")

KeyOf(r) == make_cache_key(r.model, r.messages, r.extras)
Keys == {KeyOf(r) : r \in Requests}

\* Request material for make_cache_key called directly: every model, every message
\* list of up to MaxMsgs dicts in either insertion order, and extras that are absent,
\* empty, of one or two parameters in either insertion order, or not serializable.
Models == {"m1", "m2"}
MsgRev(role, content) == << <<"content", content>>, <<"role", role>> >>
MsgDicts == {Msg("user", "hello"), MsgRev("user", "hello"), Msg("user", "hey")}
MsgLists == UNION {[1..n -> MsgDicts] : n \in 1..MaxMsgs}
ExtrasChoices ==
    {None, PyDict(<<>>),
     PyDict(<< <<"temperature", Num(1)>> >>),
     PyDict(<< <<"temperature", Num(2)>> >>),
     PyDict(<< <<"temperature", Num(1)>>, <<"max_tokens", Num(2)>> >>),
     PyDict(<< <<"max_tokens", Num(2)>>, <<"temperature", Num(1)>> >>),
     PyDict(<< <<"stop", PySet>> >>)}
Material == [model : Models, messages : MsgLists, extras : ExtrasChoices]

\* d[k] for a dict given as pairs
DictGet(d, k) == d[CHOOSE i \in 1..Len(d) : d[i][1] = k][2]

\* default semantic_prompt_fn: m[-1]["content"]
semantic_prompt_fn(messages) == DictGet(messages[Len(messages)], "content")

\* ------------------------------------------------------------- DiskCache
\* The cache table: key (PRIMARY KEY) -> response text, None where no row is.
\* a lookup that finds no row
DiskGetMiss(table, k) == None

\* SELECT response FROM cache WHERE key=?  ->  row[0] if row else None
DiskGet(table, k) == table[k]

\* a write that is never committed
DiskSetLost(table, k, s) == table

\* a write that evicts the rows of the other keys
DiskSetEvict(table, k, s) == [j \in DOMAIN table |-> IF j = k THEN s ELSE None]

\* INSERT OR REPLACE INTO cache (key, response, created_at)
DiskSet(table, k, s) == [table EXCEPT ![k] = s]

\* --------------------------------------------------------- SemanticCache
\* Embedding backend: a text goes to a point of the embedding space; the
\* collection's metric ("hnsw:space": "cosine") is a table of distances in
\* hundredths.
Embed(t) == [vec |-> t]

CosineDistance(u, v) ==
    IF u = v THEN 0
    ELSE IF {u.vec, v.vec} = {"hello", "hello there"} THEN 10
    ELSE IF {u.vec, v.vec} = {"hello", "hey"} THEN 14
    ELSE 15

Threshold == 86    \* threshold: float = 0.86, in hundredths

\* hashlib.md5(prompt).hexdigest(): the record id of a prompt
Md5(t) == [md5 |-> t]
Ids == {Md5(t) : t \in Texts}

\* coll.query(query_embeddings=[qemb], n_results=1): the ids of the records
\* nearest to qemb (one of them is returned), none when the collection is empty
Nearest(coll, qemb) ==
    {i \in Ids : /\ coll[i] # None
                 /\ \A j \in Ids : coll[j] # None =>
                        CosineDistance(qemb, coll[i].embedding)
                            <= CosineDistance(qemb, coll[j].embedding)}

\* SemanticCache.get after the query: rec is the nearest record
SemanticHit(rec, qemb, threshold) ==
    LET dist == CosineDistance(qemb, rec.embedding)
        sim == 100 - dist
        decoded == JsonLoads(rec.payload)
    IN  IF sim >= threshold
        THEN [similarity |-> sim,
              payload |-> IF IsErr(decoded) THEN None ELSE decoded]
        ELSE None

\* coll.add under an id that is not in use
UpsertAdd(coll, prompt, payload) ==
    IF \E i \in Ids : coll[i] = None
    THEN [coll EXCEPT ![CHOOSE i \in Ids : coll[i] = None] =
            [document |-> prompt, embedding |-> Embed(prompt), payload |-> JsonDumps(payload)]]
    ELSE coll

\* SemanticCache.put: coll.upsert(ids=[md5(prompt)], ...)
Upsert(coll, prompt, payload) ==
    [coll EXCEPT ![Md5(prompt)] =
        [document |-> prompt, embedding |-> Embed(prompt), payload |-> JsonDumps(payload)]]

\* ------------------------------------------------------------------ state
VARIABLES
    cfg,       \* arguments of cache_llm_call: [sem, typed]
    table,     \* the DiskCache table
    coll,      \* the SemanticCache collection
    frame,     \* per caller: the running call of wrapper
    started,   \* calls started so far
    seed,      \* history: key and value of the call that began on empty stores and returned
    promoted,  \* history: key and value of the last call answered by the semantic cache
    lastSet,   \* history: the last row a call of wrapper wrote to the table
    computed,  \* history: the responses func has returned
    everSet,   \* history: the keys DiskCache.set has been called with
    created_at, \* the created_at column of the table: key -> time of its set, -1 where no row is
    collBy,    \* history: per record of the collection, the request whose call upserted it
    db,        \* DiskCache used directly: the directory and the SQLite file at path
    now,       \* DiskCache used directly: time.time()
    disk,      \* DiskCache used directly: per process, where its DiskCache(path) is
    op,        \* the last call made directly on a store, with its result
    lastPut,   \* history: per prompt, the payload of the last direct SemanticCache.put
    kreq,      \* make_cache_key used directly: the material of two requests
    kfp        \* make_cache_key used directly: the keys derived for them

vars == <<cfg, table, coll, frame, started, seed, promoted, lastSet, computed, everSet,
          created_at, collBy, db, now, disk, op, lastPut, kreq, kfp>>

\* the variables of the wrapper and its two stores
wrapperVars ==
    <<cfg, table, coll, frame, started, seed, promoted, lastSet, computed, everSet, collBy,
      created_at>>

\* the variables of the specifications that use a store or make_cache_key directly
apiVars == <<db, now, disk, op, lastPut, kreq, kfp>>

\* cfg.sem: semantic_cache is not None.  cfg.typed: response_to_str and
\* response_from_str are the typed pair of synth_dataset.py; otherwise the defaults
\* (json.dumps, None).
Configs == [sem : BOOLEAN, typed : BOOLEAN]

\* str(x): the repr of the response, text that neither deserializer reads
ReprOf(v) == Garbage

\* response_to_str
response_to_str(v) == IF cfg.typed THEN ModelDumpJson(v) ELSE JsonDumps(v)

\* response_from_str(cached) if response_from_str else json.loads(cached)
FromCached(s) == IF cfg.typed THEN ModelValidateJson(s) ELSE JsonLoads(s)

\* payload if response_from_str is None else response_from_str(response_to_str(payload))
FromPayload(payload) ==
    IF ~cfg.typed THEN payload
    ELSE IF IsErr(response_to_str(payload)) THEN response_to_str(payload)
    ELSE ModelValidateJson(response_to_str(payload))

\* what func returns for response r under the configuration
Response(r) == IF cfg.typed THEN Obj(r) ELSE Dict(r)

EmptyTable == [k \in Keys |-> None]
EmptyColl == [i \in Ids |-> None]

\* before the first DiskCache(path): no directory, no file
NoFile == [dir |-> FALSE, tbl |-> FALSE, rows |-> {}]
\* no call made yet on a store
NoOp == [name |-> "none"]

IdleFrame ==
    [pc |-> "idle", req |-> None, key |-> None, cached |-> None, sem_hit |-> None,
     response_obj |-> None, s |-> None, ret |-> None, path |-> "none",
     ncompute |-> 0, nembed |-> 0, nquery |-> 0, nget |-> 0, nset |-> 0, sim |-> -1,
     src |-> None, created0 |-> [k \in Keys |-> -1],
     table0 |-> EmptyTable, coll0 |-> EmptyColl]

Init ==
    /\ cfg \in Configs
    /\ table = EmptyTable
    /\ coll = EmptyColl
    /\ frame = [c \in Callers |-> IdleFrame]
    /\ started = 0
    /\ seed = None
    /\ promoted = None
    /\ lastSet = None
    /\ computed = {}
    /\ everSet = {}
    /\ collBy = [i \in Ids |-> None]
    /\ created_at = [k \in Keys |-> -1]
    /\ db = NoFile
    /\ now = 0
    /\ disk = [c \in Callers |-> "none"]
    /\ op = NoOp
    /\ lastPut = [t \in Texts |-> None]
    /\ kreq = [one |-> None, other |-> None]
    /\ kfp = [one |-> None, other |-> None]

\* history kept in the frame: the stores as the call found them (table0, created0,
\* coll0),
\* the calls it made (ncompute, nembed, nquery, nget, nset: func, embed, coll.query,
\* disk_cache.get, disk_cache.set), the stage that answered (path), and
\* sim, the similarity SemanticCache.get computed (-1: none), with src, the request
\* whose call had upserted the record that get looked at.
StartEmpty(c) ==
    frame[c].pc # "idle" /\ frame[c].table0 = EmptyTable /\ frame[c].coll0 = EmptyColl

\* the call of caller c ends by raising e
Raise(c, e) == frame' = [frame EXCEPT ![c].pc = "raised", ![c].ret = Err(e)]

\* ---------------------------------------------------------------- wrapper
\* the key derived after the table has been read
BeginKeyLate(c, r) ==
    /\ frame[c].pc \in {"idle", "returned", "raised"}
    /\ started < MaxCalls
    /\ started' = started + 1
    /\ LET key == make_cache_key(r.model, r.messages, r.extras)
       IN  frame' = [frame EXCEPT ![c] =
               IF IsErr(key)
               THEN [IdleFrame EXCEPT !.pc = "raised", !.req = r, !.ret = key, !.nget = 1,
                                      !.table0 = table, !.coll0 = coll,
                                      !.created0 = created_at]
               ELSE [IdleFrame EXCEPT !.pc = "get", !.req = r, !.key = key,
                                      !.table0 = table, !.coll0 = coll,
                                      !.created0 = created_at]]
    /\ UNCHANGED <<cfg, table, coll, seed, promoted, lastSet, computed, everSet,
                   collBy, created_at, apiVars>>

\* wrapper(model, messages, extras=..): key = key_fn(model, messages, extras);
\* key_fn raising ends the call there
Begin(c, r) ==
    /\ frame[c].pc \in {"idle", "returned", "raised"}
    /\ started < MaxCalls
    /\ started' = started + 1
    /\ LET key == make_cache_key(r.model, r.messages, r.extras)
       IN  frame' = [frame EXCEPT ![c] =
               IF IsErr(key)
               THEN [IdleFrame EXCEPT !.pc = "raised", !.req = r, !.ret = key,
                                      !.table0 = table, !.coll0 = coll,
                                      !.created0 = created_at]
               ELSE [IdleFrame EXCEPT !.pc = "get", !.req = r, !.key = key,
                                      !.table0 = table, !.coll0 = coll,
                                      !.created0 = created_at]]
    /\ UNCHANGED <<cfg, table, coll, seed, promoted, lastSet, computed, everSet,
                   collBy, created_at, apiVars>>

\* a lookup that refreshes created_at of the row it finds
ExactGetTouch(c, fault) ==
    /\ frame[c].pc = "get"
    /\ LET cached == DiskGet(table, frame[c].key)
           value == FromCached(cached)
       IN  IF fault = "store"
           THEN /\ frame' = [frame EXCEPT ![c].pc = "raised", ![c].nget = @ + 1,
                                          ![c].ret = Err("StoreError")]
                /\ UNCHANGED created_at
           ELSE IF cached # None
           THEN /\ frame' = [frame EXCEPT ![c].pc = IF IsErr(value) THEN "raised"
                                                    ELSE "returned",
                                          ![c].cached = cached, ![c].nget = @ + 1,
                                          ![c].path = "exact", ![c].ret = value]
                /\ created_at' = [created_at EXCEPT ![frame[c].key] = now]
           ELSE /\ frame' = [frame EXCEPT ![c].pc = IF cfg.sem THEN "sem_get" ELSE "compute",
                                          ![c].nget = @ + 1]
                /\ UNCHANGED created_at
    /\ UNCHANGED <<cfg, table, coll, started, seed, promoted, lastSet, computed, everSet,
                   collBy, apiVars>>

\* 1) cached = disk_cache.get(key); a hit is deserialized and returned.
\*    fault = "store": sqlite3 raises.
ExactGet(c, fault) ==
    /\ frame[c].pc = "get"
    /\ LET cached == DiskGet(table, frame[c].key)
           value == FromCached(cached)
       IN  IF fault = "store"
           THEN frame' = [frame EXCEPT ![c].pc = "raised", ![c].nget = @ + 1,
                                       ![c].ret = Err("StoreError")]
           ELSE IF cached # None
           THEN IF IsErr(value)
                THEN frame' = [frame EXCEPT ![c].pc = "raised", ![c].cached = cached,
                                            ![c].nget = @ + 1,
                                            ![c].path = "exact", ![c].ret = value]
                ELSE frame' = [frame EXCEPT ![c].pc = "returned", ![c].cached = cached,
                                            ![c].nget = @ + 1,
                                            ![c].path = "exact", ![c].ret = value]
           ELSE frame' = [frame EXCEPT ![c].pc = IF cfg.sem THEN "sem_get" ELSE "compute",
                                       ![c].nget = @ + 1]
    /\ UNCHANGED <<cfg, table, coll, started, seed, promoted, lastSet, computed, everSet,
                   collBy, created_at, apiVars>>

\* 2) sem_hit = semantic_cache.get(semantic_prompt_fn(messages)).
\*    fault = "embed": embedding_backend.embed raises; "index": coll.query raises.
SemGet(c, fault) ==
    /\ frame[c].pc = "sem_get"
    /\ LET query_text == semantic_prompt_fn(frame[c].req.messages)
           qemb == Embed(query_text)
           ids == Nearest(coll, qemb)
       IN  IF fault = "embed"
           THEN frame' = [frame EXCEPT ![c].pc = "raised", ![c].nembed = @ + 1,
                                       ![c].ret = Err("EmbeddingUnavailable")]
           ELSE IF fault = "index"
           THEN frame' = [frame EXCEPT ![c].pc = "raised", ![c].nembed = @ + 1,
                                       ![c].nquery = @ + 1, ![c].ret = Err("IndexError")]
           ELSE IF ids = {}
           THEN frame' = [frame EXCEPT ![c].pc = "compute", ![c].nembed = @ + 1,
                                       ![c].nquery = @ + 1]
           ELSE \E i \in ids :
                  LET sem_hit == SemanticHit(coll[i], qemb, Threshold)
                  IN  frame' = [frame EXCEPT
                          ![c].pc = IF sem_hit # None /\ sem_hit.payload # None
                                    THEN "promote" ELSE "compute",
                          ![c].sem_hit = sem_hit,
                          ![c].sim = 100 - CosineDistance(qemb, coll[i].embedding),
                          ![c].src = collBy[i],
                          ![c].nembed = @ + 1, ![c].nquery = @ + 1]
    /\ UNCHANGED <<cfg, table, coll, started, seed, promoted, lastSet, computed, everSet,
                   collBy, created_at, apiVars>>

\* 2) on a hit: disk_cache.set(key, response_to_str(payload)); return the payload
Promote(c, fault) ==
    /\ frame[c].pc = "promote"
    /\ LET payload == frame[c].sem_hit.payload
           s == response_to_str(payload)
           value == FromPayload(payload)
       IN  IF IsErr(s)
           THEN /\ frame' = [frame EXCEPT ![c].pc = "raised", ![c].path = "semantic",
                                          ![c].ret = s]
                /\ UNCHANGED <<table, promoted, lastSet, everSet, created_at>>
           ELSE IF fault = "store"
           THEN /\ frame' = [frame EXCEPT ![c].pc = "raised", ![c].path = "semantic",
                                          ![c].nset = @ + 1, ![c].ret = Err("StoreError")]
                /\ UNCHANGED <<table, promoted, lastSet, everSet, created_at>>
           ELSE /\ table' = DiskSet(table, frame[c].key, s)
                /\ lastSet' = [key |-> frame[c].key, s |-> s]
                /\ everSet' = everSet \cup {frame[c].key}
                /\ created_at' = [created_at EXCEPT ![frame[c].key] = now]
                /\ IF IsErr(value)
                   THEN /\ frame' = [frame EXCEPT ![c].pc = "raised", ![c].nset = @ + 1,
                                         ![c].path = "semantic", ![c].s = s, ![c].ret = value]
                        /\ UNCHANGED promoted
                   ELSE /\ frame' = [frame EXCEPT ![c].pc = "returned", ![c].nset = @ + 1,
                                         ![c].path = "semantic", ![c].s = s, ![c].ret = value]
                        /\ promoted' = [key |-> frame[c].key, val |-> value]
    /\ UNCHANGED <<cfg, coll, started, seed, computed, collBy, apiVars>>

\* 3) response_obj = func(model, messages, *args, **kwargs) returns response r
Compute(c, r) ==
    /\ frame[c].pc = "compute"
    /\ frame' = [frame EXCEPT ![c].pc = "write", ![c].path = "compute",
                              ![c].ncompute = @ + 1, ![c].response_obj = Response(r)]
    /\ computed' = computed \cup {r}
    /\ UNCHANGED <<cfg, table, coll, started, seed, promoted, lastSet, everSet,
                   collBy, created_at, apiVars>>

\* func raising answered by a second try and a cached failure
ComputeRaisesRetried(c) ==
    /\ frame[c].pc = "compute"
    /\ frame' = [frame EXCEPT ![c].pc = "raised", ![c].path = "compute",
                              ![c].ncompute = @ + 2, ![c].ret = Err("ComputeError")]
    /\ table' = DiskSet(table, frame[c].key, Garbage)
    /\ UNCHANGED <<cfg, coll, started, seed, promoted, lastSet, computed, everSet,
                   collBy, created_at, apiVars>>

\* 3) func raises: nothing catches it
ComputeRaises(c) ==
    /\ frame[c].pc = "compute"
    /\ frame' = [frame EXCEPT ![c].pc = "raised", ![c].path = "compute",
                              ![c].ncompute = @ + 1, ![c].ret = Err("ComputeError")]
    /\ UNCHANGED <<cfg, table, coll, started, seed, promoted, lastSet, computed, everSet,
                   collBy, created_at, apiVars>>

\* 4) s = response_to_str(response_obj); disk_cache.set(key, s)
WriteBack(c, fault) ==
    /\ frame[c].pc = "write"
    /\ LET s == response_to_str(frame[c].response_obj)
       IN  IF IsErr(s)
           THEN /\ frame' = [frame EXCEPT ![c].pc = "raised", ![c].ret = s]
                /\ UNCHANGED <<table, lastSet, seed, everSet, created_at>>
           ELSE IF fault = "store"
           THEN /\ frame' = [frame EXCEPT ![c].pc = "raised", ![c].nset = @ + 1,
                                          ![c].ret = Err("StoreError")]
                /\ UNCHANGED <<table, lastSet, seed, everSet, created_at>>
           ELSE /\ table' = DiskSet(table, frame[c].key, s)
                /\ lastSet' = [key |-> frame[c].key, s |-> s]
                /\ everSet' = everSet \cup {frame[c].key}
                /\ created_at' = [created_at EXCEPT ![frame[c].key] = now]
                /\ IF cfg.sem
                   THEN /\ frame' = [frame EXCEPT ![c].pc = "sem_put", ![c].s = s,
                                                  ![c].nset = @ + 1]
                        /\ UNCHANGED seed
                   ELSE /\ frame' = [frame EXCEPT ![c].pc = "returned", ![c].s = s,
                                                  ![c].nset = @ + 1,
                                                  ![c].ret = frame[c].response_obj]
                        /\ seed' = IF StartEmpty(c)
                                   THEN [key |-> frame[c].key, val |-> frame[c].response_obj]
                                   ELSE seed
    /\ UNCHANGED <<cfg, coll, started, promoted, computed, collBy, apiVars>>

\* semantic_cache.put outside any try: its failure ends the call
SemPutUncaught(c, fault) ==
    /\ frame[c].pc = "sem_put"
    /\ LET query_text == semantic_prompt_fn(frame[c].req.messages)
           payload == JsonLoads(frame[c].s)
       IN  IF IsErr(payload) \/ fault # "none"
           THEN /\ frame' = [frame EXCEPT ![c].pc = "raised", ![c].nembed = @ + 1,
                                          ![c].ret = Err("EmbeddingUnavailable")]
                /\ UNCHANGED <<coll, seed>>
           ELSE /\ coll' = Upsert(coll, query_text, payload)
                /\ frame' = [frame EXCEPT ![c].pc = "returned", ![c].nembed = @ + 1,
                                          ![c].ret = frame[c].response_obj]
                /\ seed' = IF StartEmpty(c)
                           THEN [key |-> frame[c].key, val |-> frame[c].response_obj]
                           ELSE seed
    /\ UNCHANGED <<cfg, table, started, promoted, lastSet, computed, everSet, collBy,
                   created_at, apiVars>>

\* 4) try: semantic_cache.put(query_text, json.loads(s)) except Exception: pass;
\*    return response_obj.  fault = "embed" / "index": embed / coll.upsert raises.
SemPut(c, fault) ==
    /\ frame[c].pc = "sem_put"
    /\ LET query_text == semantic_prompt_fn(frame[c].req.messages)
           payload == JsonLoads(frame[c].s)
       IN  /\ coll' = IF IsErr(payload) \/ fault # "none" THEN coll
                      ELSE Upsert(coll, query_text, payload)
           /\ collBy' = IF IsErr(payload) \/ fault # "none" THEN collBy
                        ELSE [collBy EXCEPT ![Md5(query_text)] = frame[c].req]
           /\ frame' = [frame EXCEPT ![c].pc = "returned",
                                     ![c].nembed = IF IsErr(payload) THEN @ ELSE @ + 1,
                                     ![c].ret = frame[c].response_obj]
           /\ seed' = IF StartEmpty(c)
                      THEN [key |-> frame[c].key, val |-> frame[c].response_obj]
                      ELSE seed
    /\ UNCHANGED <<cfg, table, started, promoted, lastSet, computed, everSet,
                   created_at, apiVars>>
\* DiskCache.set called on the shared file by another user of the cache
ExternalSet(k, s) ==
    /\ started < MaxCalls
    /\ started' = started + 1
    /\ table' = DiskSet(table, k, s)
    /\ everSet' = everSet \cup {k}
    /\ created_at' = [created_at EXCEPT ![k] = now]
    /\ UNCHANGED <<cfg, coll, frame, seed, promoted, lastSet, computed, collBy, apiVars>>

\* time passes
Tick ==
    /\ now < MaxTime
    /\ now' = now + 1
    /\ UNCHANGED <<wrapperVars, db, disk, op, lastPut, kreq, kfp>>

StoreFaults == {"none", "store"}
SemFaults == {"none", "embed", "index"}

\* one caller, one call after the other, faulty stores, nobody else writing
NextSeq ==
    \/ \E r \in Requests : Begin("p", r)
    \/ \E f \in StoreFaults : ExactGet("p", f)
    \/ \E f \in SemFaults : SemGet("p", f)
    \/ \E f \in StoreFaults : Promote("p", f)
    \/ \E r \in Results : Compute("p", r)
    \/ ComputeRaises("p")
    \/ \E f \in StoreFaults : WriteBack("p", f)
    \/ \E f \in SemFaults : SemPut("p", f)

SpecSeq == Init /\ [][NextSeq]_vars

\* the same calls, and calls whose extras have no JSON form
NextInvalid ==
    \/ NextSeq
    \/ \E r \in BadRequests : Begin("p", r)

SpecInvalid == Init /\ [][NextInvalid]_vars

\* the same, on a table that other users of the file write between the steps
Next ==
    \/ \E r \in SameModel : Begin("p", r)
    \/ \E f \in StoreFaults : ExactGet("p", f)
    \/ \E f \in SemFaults : SemGet("p", f)
    \/ \E f \in StoreFaults : Promote("p", f)
    \/ \E r \in Results : Compute("p", r)
    \/ ComputeRaises("p")
    \/ \E f \in StoreFaults : WriteBack("p", f)
    \/ \E f \in SemFaults : SemPut("p", f)
    \/ \E r \in SameModel, s \in StoredTexts : ExternalSet(KeyOf(r), s)

Spec == Init /\ [][Next]_vars

\* concurrent calls with the same request material, no fault anywhere
NextRace ==
    \/ \E c \in Callers : Begin(c, ReqA)
    \/ \E c \in Callers : ExactGet(c, "none")
    \/ \E c \in Callers : SemGet(c, "none")
    \/ \E c \in Callers : Promote(c, "none")
    \/ \E c \in Callers, r \in Results : Compute(c, r)
    \/ \E c \in Callers : WriteBack(c, "none")
    \/ \E c \in Callers : SemPut(c, "none")

SpecRace == Init /\ [][NextRace]_vars

\* one caller, no fault, while time passes between the steps
FastRequests == {ReqA, ReqB}

NextFast ==
    \/ \E r \in FastRequests : Begin("p", r)
    \/ ExactGet("p", "none")
    \/ SemGet("p", "none")
    \/ Promote("p", "none")
    \/ \E r \in Results : Compute("p", r)
    \/ WriteBack("p", "none")
    \/ SemPut("p", "none")
    \/ Tick

SpecFast == Init /\ [][NextFast]_vars

\* ------------------------------------------------- make_cache_key, directly
InitKey == Init /\ cfg = [sem |-> FALSE, typed |-> FALSE]

\* key = make_cache_key(model, messages, extras) for a first request
DeriveOne(m) ==
    /\ kreq.one = None
    /\ kreq' = [kreq EXCEPT !.one = m]
    /\ kfp' = [kfp EXCEPT !.one = make_cache_key(m.model, m.messages, m.extras)]
    /\ UNCHANGED <<wrapperVars, db, now, disk, op, lastPut>>

\* and for a second one
DeriveOther(m) ==
    /\ kreq.one # None
    /\ kreq.other = None
    /\ kreq' = [kreq EXCEPT !.other = m]
    /\ kfp' = [kfp EXCEPT !.other = make_cache_key(m.model, m.messages, m.extras)]
    /\ UNCHANGED <<wrapperVars, db, now, disk, op, lastPut>>

NextKey ==
    \/ \E m \in Material : DeriveOne(m)
    \/ \E m \in Material : DeriveOther(m)

SpecKey == InitKey /\ [][NextKey]_vars

\* ------------------------------------------------------ DiskCache, directly
\* db.rows is the cache table as a set of rows [key, response, created_at].  The
\* specifications of the wrapper keep the same table by column: table (key ->
\* response) and created_at (key -> time).
DiskKeys == {KeyOf(ReqA), KeyOf(ReqB)}
Payloads == {J(r) : r \in Results}

\* SELECT response FROM cache WHERE key=? for every key: the table as the wrapper sees it
TableOf(rows) ==
    [k \in Keys |-> IF \E r \in rows : r.key = k
                    THEN (CHOOSE r \in rows : r.key = k).response
                    ELSE None]

\* DROP TABLE, CREATE TABLE
CreateTableFresh(d) == [d EXCEPT !.tbl = TRUE, !.rows = {}]

\* CREATE TABLE IF NOT EXISTS cache (key TEXT PRIMARY KEY, ...)
CreateTable(d) == IF d.tbl THEN d ELSE [d EXCEPT !.tbl = TRUE, !.rows = {}]

\* INSERT OR IGNORE: the row that is there stays
InsertOrIgnore(rows, k, s, t) ==
    IF \E r \in rows : r.key = k THEN rows
    ELSE rows \cup {[key |-> k, response |-> s, created_at |-> t]}

\* INSERT OR REPLACE INTO cache (key, response, created_at) VALUES (k, s, t): the
\* rows that conflict on the primary key are deleted, then the row is inserted
InsertOrReplace(rows, k, s, t) ==
    {r \in rows : r.key # k} \cup {[key |-> k, response |-> s, created_at |-> t]}

InitDisk == Init /\ cfg = [sem |-> FALSE, typed |-> FALSE]

\* DiskCache(path), first half: os.makedirs(os.path.dirname(path), exist_ok=True).
\* A process may construct a DiskCache again.
MakeDirs(c) ==
    /\ disk[c] \in {"none", "ready"}
    /\ disk' = [disk EXCEPT ![c] = "dir"]
    /\ db' = [db EXCEPT !.dir = TRUE]
    /\ UNCHANGED <<wrapperVars, now, op, lastPut, kreq, kfp>>

\* DiskCache(path), second half: _init_db.  op notes how many rows it found.
InitDb(c) ==
    /\ disk[c] = "dir"
    /\ disk' = [disk EXCEPT ![c] = "ready"]
    /\ db' = CreateTable(db)
    /\ op' = [name |-> "init", found |-> Cardinality(db.rows)]
    /\ UNCHANGED <<wrapperVars, now, lastPut, kreq, kfp>>

\* DiskCache.get(k)
StoreGet(c, k) ==
    /\ disk[c] = "ready"
    /\ op' = [name |-> "get", key |-> k, result |-> DiskGet(TableOf(db.rows), k)]
    /\ UNCHANGED <<wrapperVars, db, now, disk, lastPut, kreq, kfp>>

\* DiskCache.set(k, s).  op notes the time of the call, and in `before` the
\* created_at of a row it found under k with another response (-1: none).
StoreSet(c, k, s) ==
    /\ disk[c] = "ready"
    /\ db' = [db EXCEPT !.rows = InsertOrReplace(db.rows, k, s, now)]
    /\ op' = [name |-> "set", key |-> k, response |-> s, at |-> now,
              before |-> IF \E r \in db.rows : r.key = k /\ r.response # s
                         THEN (CHOOSE r \in db.rows : r.key = k).created_at
                         ELSE -1]
    /\ UNCHANGED <<wrapperVars, now, disk, lastPut, kreq, kfp>>

NextDisk ==
    \/ \E c \in Callers : MakeDirs(c)
    \/ \E c \in Callers : InitDb(c)
    \/ \E c \in Callers, k \in DiskKeys : StoreGet(c, k)
    \/ \E c \in Callers, k \in DiskKeys, s \in Payloads : StoreSet(c, k, s)
    \/ Tick

SpecDisk == InitDisk /\ [][NextDisk]_vars

\* -------------------------------------------------- SemanticCache, directly
InitIndex == Init /\ cfg = [sem |-> FALSE, typed |-> FALSE]

\* the payloads put is called with: dicts, and objects json.dumps cannot serialize
PutPayloads == {Dict(r) : r \in Results} \cup {Obj(r) : r \in Results}

\* SemanticCache.put(prompt, payload); json.dumps(payload) raising leaves the
\* collection alone.  op notes in `before` the payload of the record the prompt had.
IndexPut(prompt, payload) ==
    LET text == JsonDumps(payload)
        had == {i \in Ids : coll[i] # None /\ coll[i].document = prompt}
    IN  /\ coll' = IF IsErr(text) THEN coll ELSE Upsert(coll, prompt, payload)
        /\ lastPut' = IF IsErr(text) THEN lastPut ELSE [lastPut EXCEPT ![prompt] = text]
        /\ op' = [name |-> "put", prompt |-> prompt,
                  result |-> IF IsErr(text) THEN text ELSE None,
                  before |-> IF had = {} THEN None ELSE coll[CHOOSE i \in had : TRUE].payload]
        /\ UNCHANGED <<cfg, table, frame, started, seed, promoted, lastSet, computed, everSet,
                       collBy, created_at, db, now, disk, kreq, kfp>>

\* SemanticCache.get(prompt)
IndexGet(prompt) ==
    LET qemb == Embed(prompt)
        ids == Nearest(coll, qemb)
    IN  /\ \E result \in IF ids = {} THEN {None}
                          ELSE {SemanticHit(coll[i], qemb, Threshold) : i \in ids} :
                op' = [name |-> "get", prompt |-> prompt, result |-> result]
        /\ UNCHANGED <<wrapperVars, db, now, disk, lastPut, kreq, kfp>>

NextIndex ==
    \/ \E t \in Texts, v \in PutPayloads : IndexPut(t, v)
    \/ \E t \in Texts : IndexGet(t)

SpecIndex == InitIndex /\ [][NextIndex]_vars

\* ------------------------------------------------------------- properties
Ended(f) == f.pc \in {"returned", "raised"}

\* errors that are faults of the environment of the call: the store, the embedding
\* backend, the index, the backend behind func
StoreErr == Err("StoreError")
EnvErrors == {StoreErr, Err("EmbeddingUnavailable"), Err("IndexError"), Err("ComputeError")}

\* the payload of response r as a call returns it under the configuration
Returned(r) == Response(r)

\* C1: a call that finds both stores empty invokes func exactly once and returns
\* its result R; every later call with the same request material returns R without
\* invoking func.  With or without a semantic cache; a call ends otherwise only on
\* a fault of the store, the embedding backend, the index or func.
C1_FirstComputesLaterCached ==
    LET f == frame["p"]
    IN  /\ (StartEmpty("p") /\ f.pc = "returned") =>
                /\ f.ncompute = 1
                /\ f.response_obj \in {Returned(r) : r \in Results}
                /\ f.ret = f.response_obj
        /\ (seed # None /\ f.key = seed.key /\ ~StartEmpty("p") /\ f.pc = "returned") =>
                /\ f.ncompute = 0
                /\ f.ret = seed.val
        /\ (f.pc = "raised" /\ (StartEmpty("p") \/ (seed # None /\ f.key = seed.key))) =>
                f.ret \in EnvErrors

\* a later call with the material of the first one has returned
C1_Witness ==
    /\ seed # None
    /\ frame["p"].key = seed.key
    /\ ~StartEmpty("p")
    /\ frame["p"].pc = "returned"
    /\ started = 3

\* the records of the collection that qualify as a neighbour of text t
Qualifying(t) ==
    {i \in Ids : coll[i] # None
                 /\ 100 - CosineDistance(Embed(t), coll[i].embedding) >= Threshold}

\* C2: a call that finds a row under its key at the lookup ends in that step: it
\* returns the row's payload, and invokes neither func nor the embedding backend nor
\* the index, whatever the collection holds.  (The lookup raising, or the row not
\* decoding, ends the call with that error.)
C2_ExactHitPrecedence ==
    [][ (frame["p"].pc = "get" /\ table[frame["p"].key] # None /\ frame'["p"] # frame["p"]) =>
            LET g == frame'["p"]
                row == table[frame["p"].key]
            IN  /\ Ended(g)
                /\ g.ncompute = 0 /\ g.nembed = 0 /\ g.nquery = 0
                /\ table' = table /\ coll' = coll
                /\ g.pc = "returned" => (row.kind = "json" /\ g.ret = Returned(row.r))
                /\ g.pc = "raised" =>
                      (g.ret = StoreErr \/ (row.kind = "garbage" /\ g.ret \notin EnvErrors))
      ]_vars

\* an exact hit returned while a qualifying neighbour carries another payload
C2_Witness ==
    LET f == frame["p"]
    IN  /\ f.pc = "returned" /\ f.path = "exact"
        /\ \E i \in Qualifying(semantic_prompt_fn(f.req.messages)) :
                coll[i].payload # f.cached

\* C3: on an exact miss with a nearest neighbour of similarity >= threshold whose
\* payload decoded, the call returns that payload without invoking func and writes
\* it to the table under its key (the write raising apart); a later call with the
\* same material is then answered by the table, func not invoked.
C3_Promotion ==
    LET f == frame["p"]
    IN  /\ (f.sem_hit # None /\ f.sem_hit.payload # None /\ Ended(f)) =>
                \/ /\ f.pc = "returned"
                   /\ f.ncompute = 0
                   /\ f.ret = Returned(f.sem_hit.payload.r)
                   /\ table[f.key] = J(f.sem_hit.payload.r)
                \/ f.pc = "raised" /\ f.ret = StoreErr
        /\ (promoted # None /\ f.key = promoted.key /\ f.path # "semantic"
                /\ f.pc = "returned") =>
                /\ f.path = "exact"
                /\ f.ncompute = 0
                /\ f.ret = promoted.val

\* C3 where response_to_str and response_from_str are the defaults
C3_DefaultCodec == cfg.typed \/ C3_Promotion

\* C4: on an exact miss, a nearest neighbour of similarity equal to the threshold is
\* a hit (its payload is returned, func is not invoked; the write raising apart); a
\* nearest neighbour below the threshold is a miss and func is invoked.
C4_ThresholdBoundary ==
    LET f == frame["p"]
    IN  /\ (f.sim = Threshold /\ Ended(f)) =>
                \/ /\ f.pc = "returned"
                   /\ f.ncompute = 0
                   /\ f.sem_hit # None
                   /\ f.ret = Returned(f.sem_hit.payload.r)
                \/ f.pc = "raised" /\ f.ret = StoreErr
        /\ (f.sim >= 0 /\ f.sim < Threshold) =>
                /\ f.sem_hit = None
                /\ f.pc # "promote"
                /\ f.pc \in {"write", "sem_put", "returned"} => f.ncompute = 1
                /\ f.pc = "raised" => f.ret \in EnvErrors

\* the comparison of C4 alone: SemanticCache.get answers exactly from the threshold on
C4_Comparison ==
    LET f == frame["p"]
    IN  f.sim >= 0 => (f.sem_hit # None <=> f.sim >= Threshold)

\* C5: no call ends with the error of the embedding backend: a lookup whose embed
\* raises is skipped and the call goes on to func.
C5_EmbedFailureDegrades == frame["p"].ret # Err("EmbeddingUnavailable")

\* C6: once func has returned, its response is in the table under the key of the
\* call, with or without a semantic cache; whatever happens to the upsert into the
\* collection, the call returns that response, the row stays, and nothing is raised
\* (only the table's own write can end the call with an error).
C6_WriteBack ==
    LET f == frame["p"]
    IN  /\ (f.response_obj # None /\ f.pc \in {"sem_put", "returned"}) =>
                table[f.key] = J(f.response_obj.r)
        /\ (f.response_obj # None /\ f.pc = "returned") => f.ret = f.response_obj
        /\ (f.response_obj # None /\ f.pc = "raised") => f.ret = StoreErr

\* a call returned its fresh response although the upsert into the collection failed
C6_Witness ==
    LET f == frame["p"]
    IN  /\ cfg.sem
        /\ f.pc = "returned" /\ f.response_obj # None
        /\ coll[Md5(semantic_prompt_fn(f.req.messages))] = None
        /\ table[f.key] = J(f.response_obj.r)

\* C7: func raising ends the call with that very error, after one invocation of
\* func, and with the table and the collection as the call found them.
C7_ComputeFailure ==
    [][ (frame["p"].pc = "compute" /\ frame'["p"].pc = "raised") =>
            LET g == frame'["p"]
            IN  /\ g.ret = Err("ComputeError")
                /\ g.ncompute = 1
                /\ table' = g.table0
                /\ coll' = g.coll0
      ]_vars

\* func raised in a call that found rows and records in the stores
C7_Witness ==
    LET f == frame["p"]
    IN  /\ f.ret = Err("ComputeError")
        /\ f.table0 # EmptyTable /\ f.coll0 # EmptyColl

\* C8: a row that does not deserialize is a miss: no call ends with the
\* deserialization error of the row found under its key.
C8_CorruptEntryIsMiss ==
    LET f == frame["p"]
    IN  ~(f.pc = "raised" /\ f.path = "exact"
            /\ f.ret \in {Err("JSONDecodeError"), Err("ValidationError")})

\* C9: no call ends with an error of the table (fail-open).
C9_FailOpen == frame["p"].ret # StoreErr

\* C10: concurrent calls with the same key: none of them raises; each returns its
\* own response or one that a call obtained and stored; and when all have ended the
\* row under the key carries one of the responses of func, the last one written.
C10_ConcurrentIdentical ==
    LET k == KeyOf(ReqA)
    IN  /\ \A c \in Callers : frame[c].pc # "raised"
        /\ \A c \in Callers : frame[c].pc = "returned" =>
                \E r \in computed : frame[c].ret = Returned(r)
        /\ (started > 0 /\ \A c \in Callers : frame[c].pc \in {"idle", "returned", "raised"}) =>
                /\ table[k] # None
                /\ \E r \in computed : table[k] = J(r)
                /\ lastSet = [key |-> k, s |-> table[k]]

\* C10 where response_to_str and response_from_str are the defaults
C10_DefaultCodec == cfg.typed \/ C10_ConcurrentIdentical

\* a dict as the mapping it is: its pairs, whatever their insertion order
AsMapping(d) == {d[i] : i \in 1..Len(d)}
ParamsOf(extras) == IF extras = None THEN {} ELSE AsMapping(extras.items)

\* equal request material: the same model, the same messages in the same order, the
\* same parameters; absent extras are the empty mapping
SameMaterial(a, b) ==
    /\ a.model = b.model
    /\ Len(a.messages) = Len(b.messages)
    /\ \A i \in 1..Len(a.messages) : AsMapping(a.messages[i]) = AsMapping(b.messages[i])
    /\ ParamsOf(a.extras) = ParamsOf(b.extras)

BothDerived == kreq.one # None /\ kreq.other # None

\* C11: make_cache_key gives two requests of equal material the same key (or the
\* same error), whatever the insertion order of the keys of extras and of each
\* message dict, and whether or not the second call repeats the first literally.
C11_KeyDeterminism ==
    (BothDerived /\ SameMaterial(kreq.one, kreq.other)) => kfp.one = kfp.other

\* two calls whose extras and whose messages differ in insertion order only
C11_Witness ==
    /\ BothDerived
    /\ SameMaterial(kreq.one, kreq.other)
    /\ kreq.one.extras # None /\ kreq.other.extras # None
    /\ Len(kreq.one.extras.items) = 2
    /\ kreq.one.extras # kreq.other.extras
    /\ kreq.one.messages # kreq.other.messages
    /\ ~IsErr(kfp.one)
    /\ kfp.one = kfp.other

\* C12: DiskCache.set(k, B) on a table that may hold a row (k, A) leaves exactly one
\* row under k, with response B and created_at the time of this call (no earlier
\* than the replaced row's), so that get(k) is B; the rows under other keys are
\* the same as before.  In terms of the table the wrapper sees, the step is DiskSet.
C12_Upsert ==
    [][ (op'.name = "set" /\ op' # op) =>
            LET k == op'.key
                row == [key |-> k, response |-> op'.response, created_at |-> now]
            IN  /\ {r \in db'.rows : r.key = k} = {row}
                /\ DiskGet(TableOf(db'.rows), k) = op'.response
                /\ \A r \in db.rows : r.key = k => r.created_at <= row.created_at
                /\ {r \in db'.rows : r.key # k} = {r \in db.rows : r.key # k}
                /\ TableOf(db'.rows) = DiskSet(TableOf(db.rows), k, op'.response) ]_vars

\* the last call replaced a row written earlier with another response, next to a
\* row under another key
C12_Witness ==
    /\ op.name = "set"
    /\ op.before >= 0
    /\ op.before < op.at
    /\ Cardinality(db.rows) = 2
    /\ \E r \in db.rows : r.key = op.key /\ r.response = op.response /\ r.created_at = op.at

\* C13: DiskCache.get(k) answers None, the absent signal, exactly for the keys that
\* DiskCache.set has never been called with, by the wrapper or by anyone else: a
\* key once set is never absent again, whatever gets, sets and calls of the
\* wrapper follow.
C13_PresenceMonotonic ==
    \A k \in Keys : (DiskGet(table, k) = None) <=> (k \notin everSet)

\* some keys have been set, by the wrapper and by others, one has not, and a call
\* has just read a row
C13_Witness ==
    /\ Cardinality(everSet) >= 2
    /\ everSet # Keys
    /\ lastSet # None
    /\ frame["p"].pc = "returned"
    /\ frame["p"].path = "exact"

\* the records of the collection whose document is text t
RecordsOf(t) == {i \in Ids : coll[i] # None /\ coll[i].document = t}

\* C14: after any sequence of SemanticCache.put calls the collection holds at most
\* one record per prompt text, none for a text never put, and the record of a text
\* carries the payload of the last put made with that text.
C14_NoDuplicates ==
    \A t \in Texts :
        /\ Cardinality(RecordsOf(t)) <= 1
        /\ (RecordsOf(t) = {}) <=> (lastPut[t] = None)
        /\ \A i \in RecordsOf(t) : coll[i].payload = lastPut[t]

\* the last put replaced the payload of a text that had a record, next to the
\* records of other texts
C14_Witness ==
    /\ op.name = "put"
    /\ op.result = None
    /\ op.before # None
    /\ op.before # lastPut[op.prompt]
    /\ \A t \in Texts : Cardinality(RecordsOf(t)) = 1

\* C15: a call whose material make_cache_key cannot serialize ends in the step that
\* derives the key, with that TypeError: the call makes no disk_cache.get or set, no
\* embed, no query or upsert of the collection and no call of func, and the table
\* and the collection are as the call found them.
C15_InvalidMaterial ==
    [][ (frame'["p"] # frame["p"] /\ frame'["p"].req \in BadRequests) =>
            LET g == frame'["p"]
            IN  /\ g.pc = "raised"
                /\ g.ret = Err("TypeError")
                /\ g.nget = 0 /\ g.nset = 0
                /\ g.nembed = 0 /\ g.nquery = 0 /\ g.ncompute = 0
                /\ table' = table /\ coll' = coll
                /\ g.table0 = table /\ g.coll0 = coll ]_vars

\* such a call has ended on stores that hold a row and a record
C15_Witness ==
    /\ frame["p"].req \in BadRequests
    /\ frame["p"].pc = "raised"
    /\ table # EmptyTable
    /\ coll # EmptyColl

\* C16: a neighbour at similarity >= threshold whose payload cannot be used (the
\* collection's text does not decode, or response_from_str(response_to_str(payload))
\* fails) is no hit: the semantic stage writes nothing to the table, does not raise,
\* and the call goes on to func.  (A set that the store itself refuses is C9's.)
C16_NoUnusablePromotion ==
    [][ LET f == frame["p"]
            g == frame'["p"]
        IN  /\ (f.pc = "sem_get" /\ g # f /\ g.sim >= Threshold
                    /\ (g.sem_hit = None \/ g.sem_hit.payload = None)) =>
                        (g.pc = "compute" /\ table' = table)
            /\ (f.pc = "promote" /\ g # f /\ IsErr(FromPayload(f.sem_hit.payload))
                    /\ g.ret # StoreErr) =>
                        (g.pc = "compute" /\ table' = table) ]_vars

\* what disk_cache.get(other key) finds in a table that holds nothing but the row
\* set under the first key with response s
LookupOfOther(s) ==
    LET empty == [k \in {kfp.one, kfp.other} |-> None]
    IN  DiskGet(DiskSet(empty, kfp.one, s), kfp.other)

\* C17: two requests that are not the same material (another model, other messages
\* or the same messages in another order, other extras, absent extras counting as
\* empty) get different keys from make_cache_key, so the row a call sets under the
\* key of the first is not what the lookup under the key of the second finds.
C17_KeySeparation ==
    (BothDerived /\ ~IsErr(kfp.one) /\ ~IsErr(kfp.other)
                 /\ ~SameMaterial(kreq.one, kreq.other)) =>
        /\ kfp.one # kfp.other
        /\ \A s \in Payloads : LookupOfOther(s) = None

\* two requests with the same model, the same extras and the same two messages in
\* opposite order
C17_Witness ==
    /\ BothDerived
    /\ ~IsErr(kfp.one) /\ ~IsErr(kfp.other)
    /\ kreq.one.model = kreq.other.model
    /\ kreq.one.extras = kreq.other.extras
    /\ Len(kreq.one.messages) = 2 /\ Len(kreq.other.messages) = 2
    /\ kreq.one.messages[1] = kreq.other.messages[2]
    /\ kreq.one.messages[2] = kreq.other.messages[1]
    /\ ~SameMaterial(kreq.one, kreq.other)
    /\ kfp.one # kfp.other

\* C18: each step of DiskCache(path), made by any process while others construct,
\* get and set on the same file, leaves every row of the table as it is: the same
\* keys with the same responses; and the construction that has made its
\* directory completes with the table in place.
C18_IdempotentCreation ==
    [][ (disk' # disk) =>
            /\ db'.rows = db.rows
            /\ TableOf(db'.rows) = TableOf(db.rows)
            /\ db.tbl => db'.tbl
            /\ \A c \in Callers :
                    (disk[c] = "dir" /\ disk'[c] # "dir") => (disk'[c] = "ready" /\ db'.tbl) ]_vars

\* a process has just constructed its DiskCache on a table that held rows, while
\* the other is in the middle of constructing one
C18_Witness ==
    /\ op.name = "init"
    /\ op.found >= 1
    /\ Cardinality(db.rows) = op.found
    /\ \E c, d \in Callers : disk[c] = "ready" /\ disk[d] = "dir"

\* C19: with one caller and nobody else writing, a call that has returned value P
\* (from the table, from a promoted neighbour or from func) leaves a row under its
\* key, and deserializing that row the way an exact hit does gives P.
C19_ReturnedIsStored ==
    LET f == frame["p"]
    IN  f.pc = "returned" =>
            /\ DiskGet(table, f.key) # None
            /\ FromCached(DiskGet(table, f.key)) = f.ret

\* a call has returned a promoted neighbour's payload
C19_Witness ==
    /\ frame["p"].pc = "returned"
    /\ frame["p"].path = "semantic"
    /\ frame["p"].nset = 1
    /\ DiskGet(table, frame["p"].key) # None

\* C20: with a semantic cache, once two concurrent calls with the same request
\* material have both missed, both called func and both returned, the row under
\* their key and the record of their query text carry the same payload.
C20_CrossStoreConsistency ==
    LET p == frame["p"]
        q == frame["q"]
    IN  (cfg.sem /\ p.pc = "returned" /\ q.pc = "returned"
            /\ p.path = "compute" /\ q.path = "compute" /\ p.key = q.key) =>
            LET rec == coll[Md5(semantic_prompt_fn(p.req.messages))]
            IN  /\ rec # None
                /\ DiskGet(table, p.key) = rec.payload

\* C21: a call that the semantic cache answers, or that sets a neighbour's payload
\* under its own key, takes that payload from a record upserted by a call with the
\* same model and the same extras as its own.
C21_SemanticIsolation ==
    LET f == frame["p"]
    IN  (f.path = "semantic" /\ f.src # None /\ (f.pc = "returned" \/ f.nset > 0)) =>
            /\ f.src.model = f.req.model
            /\ ParamsOf(f.src.extras) = ParamsOf(f.req.extras)

\* C22: a call answered by the row found under its key makes one get and nothing
\* else: no set, no embed, no query or upsert, no call of func; the table with the
\* response and the created_at of every row, and the collection, are after the call
\* what they were when it began.
C22_FastPathFrame ==
    [][ LET f == frame["p"]
            g == frame'["p"]
        IN  (f.pc = "get" /\ g.pc = "returned" /\ g.path = "exact") =>
                /\ g.nget = 1 /\ g.nset = 0
                /\ g.nembed = 0 /\ g.nquery = 0 /\ g.ncompute = 0
                /\ table' = g.table0
                /\ created_at' = g.created0
                /\ coll' = g.coll0 ]_vars

\* such a call has returned a row set at an earlier time, with a record in the
\* collection
C22_Witness ==
    /\ frame["p"].pc = "returned"
    /\ frame["p"].path = "exact"
    /\ created_at[frame["p"].key] >= 0
    /\ created_at[frame["p"].key] < now
    /\ coll # EmptyColl

====
